---- MODULE Spec2Model ----
(***************************************************************************)
(* Octopus MinMax bot: the daily tariff comparison of main.py              *)
(* (run_tariff_compare / compare_and_switch and the switch workflow) and   *)
(* the scheduler loop of scheduler.py, as one sequential state machine.    *)
(*                                                                         *)
(* Money is fixed point, in units of 1e-4 pence (the precision of the      *)
(* "{:.4f}" rounding of main.py:210); energy is in Wh (consumptionDelta),   *)
(* so consumption_kwh is Wh / 1000.  An ISO-8601 UTC time string is the    *)
(* pair of its instant t and its zone suffix, "Z" or "+00:00"; strings     *)
(* compare as Python compares them, character by character.                *)
(***************************************************************************)
EXTENDS Integers, Sequences, FiniteSets, TLC

VARIABLES
    config,               \* config.py: DRY_RUN, ONE_OFF_RUN, DISCORD_WEBHOOK, TELEGRAM (set or not)
    now,                  \* the wall clock: its date, whether strftime("%H:%M") is before,
                          \* at ("exec") or after config.EXECUTION_TIME, and the seconds
                          \* into the execution minute
    pc,                   \* position of the single thread of control
    last_execution_date,  \* scheduler.py:9 (0 is None)
    gql_client,           \* main.py:12-13: the gql globals are set
    curr_tariff,          \* compare_and_switch locals (main.py:283-299) ...
    curr_stdn_charge,
    consumption,
    total_curr_cost,
    best_tariff,
    best_cost,
    idx,                  \* position of the for loop of main.py:289 in potential_tariffs
    totals,               \* history: the day-total computed for each tariff in this run
    enrolment_id,         \* accept_new_agreement local (main.py:225)
    enrolments,           \* history: result['productEnrolments'] of this run's accept step
                          \* and the date it was fetched on (0: not fetched)
    agreements,           \* history: the electricityAgreements of this run's verify step
                          \* and the date they were fetched on (0: not fetched)
    slept,                \* seconds that have elapsed of the time.sleep the thread is in:
                          \* main.py:308 in a run, scheduler.py:27 in the loop
    exc,                  \* the exception in flight, "none" if none
    log,                  \* history: the notifications, collaborator calls and exceptions
                          \* since the process started or the last run returned, in order
    lastFail,             \* history: the channels whose delivery failed in the last send_message
    run_dates,            \* history: current_date at each call of run_tariff_compare
                          \* (scheduler.py:13, scheduler.py:25), in order
    frames,               \* the run_tariff_compare calls that have not returned
    calc,                 \* the frame of a calculate_potential_costs call (main.py:199-218)
                          \* made by itself: its arguments, period_costs and loop position
    returned              \* history: what each such call returned, in order

vars == <<config, now, pc, last_execution_date, gql_client, curr_tariff, curr_stdn_charge,
          consumption, total_curr_cost, best_tariff, best_cost, idx, totals, enrolment_id,
          enrolments, agreements, slept, exc, log, lastFail, run_dates, frames, calc,
          returned>>

---------------------------------------------------------------------------
(* Program constants *)

potential_tariffs == <<"AGILE", "GO", "COSY">>

\* main.py:308: time.sleep(60)
CooldownSecs == 60

\* scheduler.py:27: time.sleep(30)
PollSecs == 30

\* scheduler.py:19: strftime("%H:%M") reads the same for the 60 seconds of a minute
MinuteSecs == 60

Channels == {"discord", "telegram"}

---------------------------------------------------------------------------
(* Bounds of the model *)

\* the clock runs over the dates 1..MaxDay
MaxDay == 2

\* instants of a day that readings and rate periods may carry: 0..MaxTime
MaxTime == 2

\* a sleep is observed, and the clock read, every SleepQuantum seconds
SleepQuantum == 30

NoTariff == "-"

NoId == "-"

---------------------------------------------------------------------------
(* Time strings *)

Suffixes == {"Z", "+00:00"}

\* rank of the first character of the zone suffix: "+" (0x2B) sorts before "Z" (0x5A)
SuffixRank(sfx) == IF sfx = "+00:00" THEN 0 ELSE 1

\* Python's str <= str on two time strings of the same date format
StrLeq(a, b) == \/ a.t < b.t
                \/ a.t = b.t /\ SuffixRank(a.sfx) <= SuffixRank(b.sfx)

\* (mutant) the zone suffix is not rewritten
KeepOffset(s) == s

\* consumption['readAt'].replace('+00:00', 'Z')
ReplaceOffset(s) == [t |-> s.t, sfx |-> IF s.sfx = "+00:00" THEN "Z" ELSE s.sfx]

---------------------------------------------------------------------------
(* Cost Calculator: calculate_potential_costs, main.py:199-218 *)

\* rate['valid_from'] <= read_time <= rate['valid_to']
Covers(rate, read_time) ==
    StrLeq(rate.valid_from, read_time) /\ StrLeq(read_time, rate.valid_to)

\* the indexes of the rates next() may return for a reading
CoveringIndexes(rate_data, read_time) ==
    {i \in DOMAIN rate_data : Covers(rate_data[i], read_time)}

Min(S) == CHOOSE x \in S : \A y \in S : x <= y

\* next(rate for rate in rate_data if ...): the first match
matching_rate(rate_data, read_time) ==
    rate_data[Min(CoveringIndexes(rate_data, read_time))]

\* float("{:.4f}".format(kwh * rate)): Wh * rate / 1000 to the nearest unit, ties to even
Round4(wh, rate) ==
    LET n == wh * rate
        q == n \div 1000
        r == n % 1000
    IN  IF 2 * r > 1000 \/ (2 * r = 1000 /\ q % 2 = 1) THEN q + 1 ELSE q

PeriodCost(c, rate_data) ==
    LET read_time == ReplaceOffset(c.readAt)
        rate == matching_rate(rate_data, read_time)
    IN  [period_end |-> read_time,
         consumption_kwh |-> c.consumptionDelta,
         rate |-> rate.value_inc_vat,
         calculated_cost |-> Round4(c.consumptionDelta, rate.value_inc_vat)]

\* the first reading no rate covers, 0 if every reading is covered
FirstMiss(consumption_data, rate_data) ==
    LET miss == {i \in DOMAIN consumption_data :
                   CoveringIndexes(rate_data, ReplaceOffset(consumption_data[i].readAt)) = {}}
    IN  IF miss = {} THEN 0 ELSE Min(miss)

\* raised: next() found no rate for some reading (StopIteration leaves the function)
calculate_potential_costs(consumption_data, rate_data) ==
    IF FirstMiss(consumption_data, rate_data) # 0
    THEN [raised |-> TRUE, period_costs |-> <<>>]
    ELSE [raised |-> FALSE,
          period_costs |-> [i \in DOMAIN consumption_data |->
                               PeriodCost(consumption_data[i], rate_data)]]

RECURSIVE SumOf(_, _)
\* sum(f(entry) for entry in seq)
SumOf(seq, field) ==
    IF seq = <<>> THEN 0
    ELSE (IF field = "costDeltaWithTax" THEN Head(seq).costDeltaWithTax
          ELSE Head(seq).calculated_cost) + SumOf(Tail(seq), field)

---------------------------------------------------------------------------
(* Notifier: send_message, main.py:99-121 *)

NoDelivery == [attempted |-> FALSE, failed |-> FALSE, raised |-> FALSE]

\* (mutant) the try/except is missing: a failed delivery raises out of send_message
DeliveryUncaught(channel, fails) ==
    [attempted |-> TRUE, failed |-> channel \in fails, raised |-> channel \in fails]

\* One channel's try/except: requests.post and raise_for_status fail with a
\* RequestException, which the except clause catches and prints.
Delivery(channel, fails) ==
    [attempted |-> TRUE, failed |-> channel \in fails, raised |-> FALSE]

DiscordConfigured == config.DISCORD_WEBHOOK

TelegramConfigured == config.TELEGRAM_BOT_TOKEN /\ config.TELEGRAM_CHAT_ID

Configured == (IF DiscordConfigured THEN {"discord"} ELSE {})
              \cup (IF TelegramConfigured THEN {"telegram"} ELSE {})

\* fails: the channels whose delivery would fail in this call.  The result is
\* the printed message with the channels attempted, the channels that failed,
\* and whether an exception left send_message.
send_message(m, t, fails) ==
    LET d  == IF DiscordConfigured THEN Delivery("discord", fails) ELSE NoDelivery
        tg == IF d.raised THEN NoDelivery
              ELSE IF TelegramConfigured THEN Delivery("telegram", fails)
              ELSE NoDelivery
    IN  [entry  |-> [k |-> "note", m |-> m, t |-> t,
                     ch |-> (IF d.attempted THEN {"discord"} ELSE {})
                            \cup (IF tg.attempted THEN {"telegram"} ELSE {})],
         failed |-> (IF d.failed THEN {"discord"} ELSE {})
                    \cup (IF tg.failed THEN {"telegram"} ELSE {}),
         raised |-> d.raised \/ tg.raised]

Call(m, t) == [k |-> "call", m |-> m, t |-> t, ch |-> {}]

Raised(kind) == [k |-> "raise", m |-> kind, t |-> NoTariff, ch |-> {}]

\* (mutant) a failed candidate is tried again instead of ending the run
HandlerRetry(at, kind) == IF at = "loop" THEN "loop" ELSE "except"

\* (mutant) the except clause names StopIteration instead of Exception
HandlerNarrow(at, kind) == IF kind = "StopIteration" THEN "except" ELSE "crashed"

\* (mutant) the except clause calls run_tariff_compare again
HandlerRestart(at, kind) == "run"

\* (mutant) the except clause passes: the error is not reported
HandlerSilent(at, kind) == "done"

\* main.py:321-327: where an exception of this kind, raised at position at of
\* the try body, takes control: no function below run_tariff_compare catches
\* it, and every kind is an Exception, so the except clause is entered
Handler(at, kind) == "except"

\* (mutant) the message is sent before the work it reports
EmitEarly(P, pre, m, t, okpc, errpc) ==
    \E fails \in P.fails :
    LET r == send_message(m, t, fails)
    IN  /\ log' = Append(log, r.entry) \o pre
        /\ lastFail' = r.failed
        /\ pc' = okpc
        /\ exc' = "none"

\* pre happened, then send_message(m, t) was called, with the delivery to the
\* channels of fails failing, and control goes to okpc; an exception leaving
\* send_message goes to errpc instead.
Emit(P, pre, m, t, okpc, errpc) ==
    \E fails \in P.fails :
    LET r == send_message(m, t, fails)
    IN  /\ log' = IF r.raised THEN (log \o pre) \o <<r.entry, Raised("RequestException")>>
                  ELSE Append(log \o pre, r.entry)
        /\ lastFail' = r.failed
        /\ pc' = IF ~r.raised THEN okpc
                 ELSE IF errpc = "except" THEN Handler(pc, "RequestException")
                 ELSE errpc
        /\ exc' = IF r.raised THEN "RequestException" ELSE "none"

\* pre happened, then an exception of this kind was raised inside the try of
\* run_tariff_compare (main.py:321-327)
Raise(pre, kind) ==
    /\ log' = (log \o pre) \o <<Raised(kind)>>
    /\ pc' = Handler(pc, kind)
    /\ exc' = kind
    /\ UNCHANGED lastFail

---------------------------------------------------------------------------
(* Initial state *)

NoTotals == [t \in {} |-> 0]

NotFetched == [result |-> <<>>, today |-> 0]

NoLocals == /\ curr_tariff = NoTariff
            /\ curr_stdn_charge = 0
            /\ consumption = <<>>
            /\ total_curr_cost = 0
            /\ best_tariff = NoTariff
            /\ best_cost = 0
            /\ idx = 0
            /\ enrolment_id = NoId

\* no calculate_potential_costs call is being made by itself
NoCall == [at |-> "idle", consumption_data |-> <<>>, rate_data |-> <<>>,
           period_costs |-> <<>>, i |-> 0]

\* the process starts: scheduler.py:1-9, main.py:12-13
ProcessStart(cfgs) ==
    /\ config \in cfgs
    /\ now = [date |-> 1, phase |-> "before", sec |-> 0]
    /\ pc = "start"
    /\ last_execution_date = 0
    /\ gql_client = FALSE
    /\ NoLocals
    /\ totals = NoTotals
    /\ enrolments = NotFetched
    /\ agreements = NotFetched
    /\ slept = 0
    /\ exc = "none"
    /\ log = <<>>
    /\ lastFail = {}
    /\ run_dates = <<>>
    /\ frames = 0

InitWith(P) ==
    /\ ProcessStart(P.cfgs)
    /\ calc = NoCall
    /\ returned = <<>>

runVars == <<curr_tariff, curr_stdn_charge, consumption, total_curr_cost, best_tariff,
             best_cost, idx, totals, enrolment_id, enrolments, agreements, slept>>

---------------------------------------------------------------------------
(* The wall clock *)

\* the clock SleepQuantum seconds later: the execution minute lasts MinuteSecs
NextInstant(c) ==
    CASE c.phase = "before" -> [c EXCEPT !.phase = "exec", !.sec = 0]
      [] c.phase = "exec"   -> IF c.sec + SleepQuantum < MinuteSecs
                               THEN [c EXCEPT !.sec = c.sec + SleepQuantum]
                               ELSE [c EXCEPT !.phase = "after", !.sec = 0]
      [] OTHER              -> [date |-> c.date + 1, phase |-> "before", sec |-> 0]

\* datetime.now() is local time: it moves on, or is set back within the day
\* (the end of summer time) to before the execution time
ClockSteps(c) ==
    {NextInstant(c)}
    \cup (IF c.phase = "after" THEN {[c EXCEPT !.phase = "before"]} ELSE {})

\* (mutant) the loop sleeps for a minute and a half
SleepDueLate(elapsed) == elapsed >= 3 * PollSecs

\* scheduler.py:27: time.sleep(30) returns once 30 seconds have elapsed
SleepDue(elapsed) == elapsed >= PollSecs

\* SleepQuantum seconds pass while the process is alive; a thread in the
\* sleep of scheduler.py:27 has slept that much longer
Tick ==
    /\ pc \notin {"exit", "crashed"}
    /\ \E c \in ClockSteps(now) : c.date <= MaxDay /\ now' = c
    /\ slept' = IF pc = "sleep" /\ ~SleepDue(slept) THEN slept + SleepQuantum ELSE slept
    /\ UNCHANGED <<config, run_dates, frames, calc, returned, pc, last_execution_date,
                   gql_client, curr_tariff, curr_stdn_charge, consumption, total_curr_cost,
                   best_tariff, best_cost, idx, totals, enrolment_id, enrolments,
                   agreements, exc, log, lastFail>>

---------------------------------------------------------------------------
(* scheduler.py *)

\* scheduler.py:11-15
Welcome(P) ==
    /\ pc = "start"
    /\ IF config.ONE_OFF_RUN
       THEN /\ Emit(P, <<>>, "welcome_one_off", NoTariff, "run", "crashed")
            /\ run_dates' = Append(run_dates, now.date)
       ELSE /\ Emit(P, <<>>, "welcome_scheduled", NoTariff, "poll", "crashed")
            /\ UNCHANGED run_dates
    /\ UNCHANGED <<config, frames, calc, returned, now, last_execution_date, gql_client, runVars>>

\* (mutant) the date of the last execution is not compared
ShouldExecuteAnyDate(clock, last) == clock.phase = "exec"

\* scheduler.py:22: current_time == config.EXECUTION_TIME and last_execution_date != current_date
ShouldExecute(clock, last) == clock.phase = "exec" /\ last # clock.date

\* scheduler.py:18-25: one pass of the loop up to the call of run_tariff_compare
Poll(P) ==
    /\ pc = "poll"
    /\ IF ShouldExecute(now, last_execution_date)
       THEN /\ Emit(P, <<>>, "executing", NoTariff, "run", "crashed")
            /\ last_execution_date' = now.date
            /\ run_dates' = Append(run_dates, now.date)
       ELSE /\ pc' = "sleep"
            /\ UNCHANGED <<last_execution_date, log, lastFail, exc, run_dates>>
    /\ UNCHANGED <<config, frames, calc, returned, now, gql_client, runVars>>

\* scheduler.py:27: time.sleep(30) returns
SchedulerSleep ==
    /\ pc = "sleep"
    /\ SleepDue(slept)
    /\ pc' = "poll"
    /\ slept' = 0
    /\ UNCHANGED <<config, run_dates, frames, calc, returned, now, last_execution_date,
                   gql_client, curr_tariff, curr_stdn_charge, consumption, total_curr_cost,
                   best_tariff, best_cost, idx, totals, enrolment_id, enrolments,
                   agreements, exc, log, lastFail>>

---------------------------------------------------------------------------
(* run_tariff_compare, main.py:319-328 *)

\* main.py:321-326: get_token, setup_gql and the test of the gql globals
RunStart ==
    /\ pc = "run"
    /\ frames' = frames + 1
    /\ \E ok \in BOOLEAN :
         IF ok
         THEN /\ gql_client' = TRUE
              /\ log' = Append(log, Call("get_token", NoTariff))
              /\ IF gql_client'
                 THEN pc' = "compare" /\ exc' = "none"
                 ELSE pc' = "except" /\ exc' = "SetupFailed"
         ELSE /\ log' = log \o <<Call("get_token", NoTariff), Raised("TransportError")>>
              /\ pc' = Handler(pc, "TransportError")
              /\ exc' = "TransportError"
              /\ UNCHANGED gql_client
    /\ UNCHANGED <<config, run_dates, calc, returned, now, last_execution_date, runVars, lastFail>>

\* main.py:327-328: except Exception: send_message(traceback.format_exc())
Except(P) ==
    /\ pc = "except"
    /\ Emit(P, <<>>, "traceback", NoTariff, "done", "crashed")
    /\ UNCHANGED <<config, run_dates, frames, calc, returned, now, last_execution_date, gql_client, runVars>>

\* run_tariff_compare returns to scheduler.py:13 or scheduler.py:25; its locals
\* are gone, and the history of the run ends
RunReturn ==
    /\ pc = "done"
    /\ frames' = frames - 1
    /\ pc' = IF config.ONE_OFF_RUN THEN "exit" ELSE "sleep"
    /\ curr_tariff' = NoTariff
    /\ curr_stdn_charge' = 0
    /\ consumption' = <<>>
    /\ total_curr_cost' = 0
    /\ best_tariff' = NoTariff
    /\ best_cost' = 0
    /\ idx' = 0
    /\ enrolment_id' = NoId
    /\ totals' = NoTotals
    /\ enrolments' = NotFetched
    /\ agreements' = NotFetched
    /\ slept' = 0
    /\ log' = <<>>
    /\ UNCHANGED <<config, run_dates, calc, returned, now, last_execution_date, gql_client, exc, lastFail>>

---------------------------------------------------------------------------
(* compare_and_switch, main.py:280-317: the comparison *)

\* main.py:282
CompareStart(P) ==
    /\ pc = "compare"
    /\ Emit(P, <<>>, "octobot_on", NoTariff, "acc_info", "except")
    /\ UNCHANGED <<config, run_dates, frames, calc, returned, now, last_execution_date, gql_client, runVars>>

\* main.py:163-167: the first potential tariff whose name the tariff code
\* contains; code is the set of the names it contains
CurrentTariffOf(code) ==
    LET hits == {i \in DOMAIN potential_tariffs : potential_tariffs[i] \in code}
    IN  IF hits = {} THEN NoTariff ELSE potential_tariffs[Min(hits)]

\* (mutant) the standing charge is left out of the current total
TotalCurrCostNoCharge(readings, charge) == SumOf(readings, "costDeltaWithTax")

\* main.py:284
TotalCurrCost(readings, charge) ==
    SumOf(readings, "costDeltaWithTax") + charge

\* main.py:283-287: get_acc_info (main.py:145-178), the current total and its notification
GetAccInfo(P) ==
    /\ pc = "acc_info"
    /\ \/ \* the account query fails, or its result holds no tariff code, device or charge
          /\ \E kind \in {"TransportError", "StopIteration"} :
               Raise(<<Call("account_query", NoTariff)>>, kind)
          /\ UNCHANGED runVars
       \/ \* main.py:169-170: the tariff code names no potential tariff
          /\ \E code \in P.codes :
               /\ CurrentTariffOf(code) = NoTariff
               /\ Raise(<<Call("account_query", NoTariff)>>, "UnknownTariff")
          /\ UNCHANGED runVars
       \/ \* main.py:173-176: the consumption query fails
          /\ \E code \in P.codes :
               /\ CurrentTariffOf(code) # NoTariff
               /\ Raise(<<Call("account_query", NoTariff),
                          Call("consumption_query", NoTariff)>>, "TransportError")
          /\ UNCHANGED runVars
       \/ \E code \in P.codes, readings \in P.cons, charge \in P.charges :
            LET tariff == CurrentTariffOf(code)
                total  == TotalCurrCost(readings, charge)
            IN  /\ tariff # NoTariff
                /\ curr_tariff' = tariff
                /\ curr_stdn_charge' = charge
                /\ consumption' = readings
                /\ total_curr_cost' = total
                /\ best_tariff' = tariff
                /\ best_cost' = total
                /\ idx' = 1
                /\ totals' = (tariff :> total)
                /\ Emit(P, <<Call("account_query", NoTariff),
                          Call("consumption_query", NoTariff)>>,
                        "current_cost", tariff, "loop", "except")
                /\ UNCHANGED <<enrolment_id, enrolments, agreements, slept>>
    /\ UNCHANGED <<config, run_dates, frames, calc, returned, now, last_execution_date, gql_client>>

\* main.py:290-291: the current tariff is skipped
LoopContinue ==
    /\ pc = "loop"
    /\ idx <= Len(potential_tariffs)
    /\ potential_tariffs[idx] = curr_tariff
    /\ idx' = idx + 1
    /\ UNCHANGED <<config, run_dates, frames, calc, returned, now, pc, last_execution_date, gql_client, curr_tariff,
                   curr_stdn_charge, consumption, total_curr_cost, best_tariff, best_cost,
                   totals, enrolment_id, enrolments, agreements, slept, exc, log, lastFail>>

\* (mutant) <= for <: a tie replaces the best tariff
ImprovesOrTies(total, best) == total <= best

\* (mutant) > for <: the dearest tariff is kept
ImprovesReversed(total, best) == total > best

\* main.py:297: if total_potential_calculated < best_cost
Improves(total, best) == total < best

\* main.py:293-299: one candidate tariff: rates, costs, total, notification, comparison
Candidate(P) ==
    /\ pc = "loop"
    /\ idx <= Len(potential_tariffs)
    /\ potential_tariffs[idx] # curr_tariff
    /\ LET tariff == potential_tariffs[idx]
       IN  \/ \* get_potential_tariff_rates fails: a REST query, or no such product
              /\ \E kind \in {"TransportError", "StopIteration"} :
                   Raise(<<Call("get_rates", tariff)>>, kind)
              /\ UNCHANGED <<best_tariff, best_cost, idx, totals>>
           \/ \E rates \in P.rates :
                LET potential_costs == calculate_potential_costs(consumption, rates.unit_rates)
                    total == SumOf(potential_costs.period_costs, "calculated_cost")
                             + rates.standing_charge
                IN  IF potential_costs.raised
                    THEN /\ Raise(<<Call("get_rates", tariff)>>, "StopIteration")
                         /\ UNCHANGED <<best_tariff, best_cost, idx, totals>>
                    ELSE /\ Emit(P, <<Call("get_rates", tariff)>>,
                                 "potential_cost", tariff, "loop", "except")
                         /\ totals' = totals @@ (tariff :> total)
                         /\ best_tariff' = IF Improves(total, best_cost) THEN tariff
                                           ELSE best_tariff
                         /\ best_cost' = IF Improves(total, best_cost) THEN total
                                         ELSE best_cost
                         /\ idx' = idx + 1
    /\ UNCHANGED <<config, run_dates, frames, calc, returned, now, last_execution_date, gql_client, curr_tariff,
                   curr_stdn_charge, consumption, total_curr_cost, enrolment_id, enrolments,
                   agreements, slept>>

\* (mutant) the test best_tariff != curr_tariff is missing
DecisionAlwaysSwitch(dry_run, best, curr) == IF dry_run THEN "dry_run" ELSE "switch"

\* (mutant) the dry-run test comes after the switch test
DecisionDryRunLast(dry_run, best, curr) ==
    IF best # curr THEN "switch"
    ELSE IF dry_run THEN "dry_run"
    ELSE "stay"

\* main.py:302-317: which branch the summary takes
Decision(dry_run, best, curr) ==
    IF dry_run THEN "dry_run"
    ELSE IF best # curr THEN "switch"
    ELSE "stay"

\* main.py:301-305, 316-317: the summary notification
Summary(P) ==
    /\ pc = "loop"
    /\ idx > Len(potential_tariffs)
    /\ LET d == Decision(config.DRY_RUN, best_tariff, curr_tariff)
       IN  CASE d = "dry_run" ->
                  Emit(P, <<>>, "dry_run_summary", best_tariff, "done", "except")
             [] d = "switch" ->
                  Emit(P, <<>>, "initiating_switch", best_tariff, "switch", "except")
             [] OTHER ->
                  Emit(P, <<>>, "not_switching", best_tariff, "done", "except")
    /\ UNCHANGED <<config, run_dates, frames, calc, returned, now, last_execution_date, gql_client, runVars>>

---------------------------------------------------------------------------
(* compare_and_switch, main.py:304-315: the switch workflow *)

\* main.py:306-307: switch_tariff (main.py:250-278) and its notification
SwitchTariff(P) ==
    /\ pc = "switch"
    /\ \/ Raise(<<Call("switch_tariff", best_tariff)>>, "PlaywrightError")
       \/ Emit(P, <<Call("switch_tariff", best_tariff)>>,
                 "switch_requested", best_tariff, "cooldown", "except")
    /\ UNCHANGED <<config, run_dates, frames, calc, returned, now, last_execution_date, gql_client, runVars>>

\* (mutant) the wait is missing
SleepReturnsAtOnce(elapsed, secs) == TRUE

\* time.sleep(secs) returns once secs seconds have elapsed
SleepReturns(elapsed, secs) == elapsed >= secs

\* main.py:308: time.sleep(60), SleepQuantum seconds at a time
Cooldown ==
    /\ pc = "cooldown"
    /\ IF SleepReturns(slept, CooldownSecs)
       THEN pc' = "accept" /\ UNCHANGED <<slept, log>>
       ELSE /\ slept' = slept + SleepQuantum
            /\ log' = Append(log, Call("sleep", NoTariff))
            /\ UNCHANGED pc
    /\ UNCHANGED <<config, run_dates, frames, calc, returned, now, last_execution_date, gql_client, curr_tariff,
                   curr_stdn_charge, consumption, total_curr_cost, best_tariff, best_cost,
                   idx, totals, enrolment_id, enrolments, agreements, exc, lastFail>>

\* main.py:225: the entries next() may return
InProgress(result) == {i \in DOMAIN result : result[i].status = "IN_PROGRESS"}

\* main.py:231-232: datetime.fromisoformat(steps[-1]['updatedAt'].replace(...)).date()
LastStepDate(stage) == stage.steps[Len(stage.steps)].updatedAt.date

RECURSIVE ScanStages(_, _)
\* main.py:229-235: the stages of one entry, in order
ScanStages(stages, today) ==
    IF stages = <<>> THEN "next"
    ELSE LET stage == Head(stages)
         IN  IF stage.name = "post-enrolment"
             THEN IF stage.steps = <<>> THEN "IndexError"
                  ELSE IF LastStepDate(stage) = today /\ stage.status = "COMPLETED"
                       THEN "completed"
                       ELSE ScanStages(Tail(stages), today)
             ELSE ScanStages(Tail(stages), today)

RECURSIVE ScanEntries(_, _)
\* main.py:228-236: the fallback search over the entries, in order
ScanEntries(entries, today) ==
    IF entries = <<>> THEN "EnrolmentNotFound"
    ELSE LET r == ScanStages(Head(entries).stages, today)
         IN  IF r = "next" THEN ScanEntries(Tail(entries), today) ELSE r

Max(S) == CHOOSE x \in S : \A y \in S : x >= y

\* (mutant) the last IN_PROGRESS entry is taken
LastInProgress(result) == Max(InProgress(result))

\* main.py:225: next(...) returns the first of them
FirstInProgress(result) == Min(InProgress(result))

\* main.py:224-236: what accept_new_agreement does with the fetched enrolments
AcceptOutcome(result, today) ==
    IF InProgress(result) # {}
    THEN [kind |-> "mutate", id |-> result[FirstInProgress(result)].id]
    ELSE [kind |-> ScanEntries(result, today), id |-> NoId]

\* main.py:222-236: the enrolment query and the choice of accept_new_agreement
AcceptQuery(P) ==
    /\ pc = "accept"
    /\ \/ /\ Raise(<<Call("enrolment_query", NoId)>>, "TransportError")
          /\ UNCHANGED <<enrolment_id, enrolments>>
       \/ \E result \in P.enrol :
            LET out == AcceptOutcome(result, now.date)
            IN  /\ enrolments' = [result |-> result, today |-> now.date]
                /\ enrolment_id' = out.id
                /\ CASE out.kind = "mutate" ->
                          /\ log' = Append(log, Call("enrolment_query", NoId))
                          /\ pc' = "mutate"
                          /\ UNCHANGED <<exc, lastFail>>
                     [] out.kind = "completed" ->
                          Emit(P, <<Call("enrolment_query", NoId)>>,
                                 "post_enrolment_completed", NoTariff,
                                 "accepted", "except")
                     [] OTHER ->
                          Raise(<<Call("enrolment_query", NoId)>>, out.kind)
    /\ UNCHANGED <<config, run_dates, frames, calc, returned, now, last_execution_date, gql_client, curr_tariff,
                   curr_stdn_charge, consumption, total_curr_cost, best_tariff, best_cost,
                   idx, totals, agreements, slept>>

\* main.py:237-238: the acceptance mutation
AcceptMutation ==
    /\ pc = "mutate"
    /\ \/ Raise(<<Call("accept_mutation", enrolment_id)>>, "TransportError")
       \/ /\ log' = Append(log, Call("accept_mutation", enrolment_id))
          /\ pc' = "accepted"
          /\ UNCHANGED <<exc, lastFail>>
    /\ UNCHANGED <<config, run_dates, frames, calc, returned, now, last_execution_date, gql_client, runVars>>

\* main.py:310
Accepted(P) ==
    /\ pc = "accepted"
    /\ Emit(P, <<>>, "accepted", NoTariff, "verify", "except")
    /\ UNCHANGED <<config, run_dates, frames, calc, returned, now, last_execution_date, gql_client, runVars>>

\* main.py:245-248: the first agreement's validFrom date is today
verify_new_agreement(electricityAgreements, today) ==
    electricityAgreements[1].validFrom.date = today

\* main.py:312-315: verify_new_agreement (main.py:240-248) and its notification
Verify(P) ==
    /\ pc = "verify"
    /\ \/ /\ Raise(<<Call("verify_query", NoTariff)>>, "TransportError")
          /\ UNCHANGED agreements
       \/ \E result \in P.agree :
            /\ agreements' = [result |-> result, today |-> now.date]
            /\ IF result = <<>>
               THEN Raise(<<Call("verify_query", NoTariff)>>, "StopIteration")
               ELSE IF verify_new_agreement(result, now.date)
                      THEN Emit(P, <<Call("verify_query", NoTariff)>>,
                                "verified", NoTariff, "done", "except")
                      ELSE Emit(P, <<Call("verify_query", NoTariff)>>,
                                "check_manually", NoTariff, "done", "except")
    /\ UNCHANGED <<config, run_dates, frames, calc, returned, now, last_execution_date, gql_client, curr_tariff,
                   curr_stdn_charge, consumption, total_curr_cost, best_tariff, best_cost,
                   idx, totals, enrolment_id, enrolments, slept>>

---------------------------------------------------------------------------
(* Inputs *)

SeqsUpTo(S, n) == UNION {[1..k -> S] : k \in 0..n}

Times == 0..MaxTime

Dates == 1..MaxDay

TimeString(t) == [t |-> t, sfx |-> "Z"]

\* config.py of a deployment with both channels set
Cfg(dry, one_off) ==
    [DRY_RUN |-> dry, ONE_OFF_RUN |-> one_off, DISCORD_WEBHOOK |-> TRUE,
     TELEGRAM_BOT_TOKEN |-> TRUE, TELEGRAM_CHAT_ID |-> TRUE]

\* rate periods [valid_from, valid_to] between instants of the day
Periods(values) ==
    {[valid_from |-> TimeString(a), valid_to |-> TimeString(b), value_inc_vat |-> v] :
        a \in Times, b \in Times, v \in values}

\* the comparison's inputs: one or no reading, any schedule of one period
CompareInputs ==
    [cfgs    |-> {Cfg(d, o) : d \in BOOLEAN, o \in BOOLEAN},
     fails   |-> {{}},
     codes   |-> {{}, {"AGILE"}, {"GO"}, {"COSY"}, {"GO", "COSY"}},
     cons    |-> SeqsUpTo([readAt : {[t |-> 1, sfx |-> "+00:00"]},
                           consumptionDelta : {500, 1500},
                           costDeltaWithTax : {1, 2}], 1),
     charges |-> {0, 1},
     rates   |-> [standing_charge : {0, 1}, unit_rates : SeqsUpTo(Periods({1, 2}), 1)],
     enrol   |-> {<<>>,
                  <<[id |-> "e1", status |-> "IN_PROGRESS", stages |-> <<>>]>>},
     agree   |-> SeqsUpTo([validFrom : [date : Dates]], 1)]

\* a step of the program's one thread
ProgramStep(P) ==
    \/ Welcome(P)
    \/ Poll(P)
    \/ SchedulerSleep
    \/ RunStart
    \/ Except(P)
    \/ RunReturn
    \/ CompareStart(P)
    \/ GetAccInfo(P)
    \/ LoopContinue
    \/ Candidate(P)
    \/ Summary(P)
    \/ SwitchTariff(P)
    \/ Cooldown
    \/ AcceptQuery(P)
    \/ AcceptMutation
    \/ Accepted(P)
    \/ Verify(P)

NextWith(P) ==
    \/ Tick
    \/ ProgramStep(P)

Next == NextWith(CompareInputs)

Init == InitWith(CompareInputs)

\* the whole program, the comparison's inputs varied
Spec == Init /\ [][Next]_vars

\* a scheduled deployment whose first candidate is always cheaper
Cheaper(cfgs, fails, enrol) ==
    [cfgs    |-> cfgs,
     fails   |-> fails,
     codes   |-> {{}, {"AGILE"}},
     cons    |-> {<<>>},
     charges |-> {1},
     rates   |-> {[standing_charge |-> 0, unit_rates |-> <<>>]},
     enrol   |-> enrol,
     agree   |-> SeqsUpTo([validFrom : [date : {1}]], 1)]

\* a stage's steps were last updated on the first or the second day of the clock
Stages ==
    [name   : {"post-enrolment", "enrolment"},
     status : {"COMPLETED", "PENDING"},
     steps  : SeqsUpTo([updatedAt : [date : {1, 2}]], 2)]

\* the entry at position i of the fetched list has id e<i>
EntriesAt(id) ==
    [id : {id}, status : {"IN_PROGRESS", "COMPLETED"}, stages : SeqsUpTo(Stages, 1)]

\* the accept step's inputs: up to two enrolments of at most one stage of up to two steps
AcceptInputs ==
    Cheaper({Cfg(FALSE, FALSE)}, {{}},
            {<<>>} \cup {<<a>> : a \in EntriesAt("e1")}
                   \cup {<<a, b>> : a \in EntriesAt("e1"), b \in EntriesAt("e2")})

InitAccept == InitWith(AcceptInputs)

NextAccept == NextWith(AcceptInputs)

\* the whole program, the accept step's inputs varied
SpecAccept == InitAccept /\ [][NextAccept]_vars

\* the notifier's inputs: every choice of configured channels and of failing deliveries
NotifyInputs ==
    Cheaper([DRY_RUN : {FALSE}, ONE_OFF_RUN : {FALSE}, DISCORD_WEBHOOK : BOOLEAN,
             TELEGRAM_BOT_TOKEN : BOOLEAN, TELEGRAM_CHAT_ID : BOOLEAN],
            SUBSET Channels,
            {<<>>, <<[id |-> "e1", status |-> "IN_PROGRESS", stages |-> <<>>]>>})

InitNotify == InitWith(NotifyInputs)

NextNotify == NextWith(NotifyInputs)

\* the whole program, the notifier's inputs varied
SpecNotify == InitNotify /\ [][NextNotify]_vars

\* a deployment in either mode whose first candidate is or is not cheaper and
\* whose calls may each fail
LiveInputs ==
    [cfgs    |-> {Cfg(d, o) : d \in BOOLEAN, o \in BOOLEAN},
     fails   |-> {{}},
     codes   |-> {{}, {"AGILE"}},
     cons    |-> {<<>>},
     charges |-> {0, 1},
     rates   |-> {[standing_charge |-> 0, unit_rates |-> <<>>]},
     enrol   |-> {<<>>, <<[id |-> "e1", status |-> "IN_PROGRESS", stages |-> <<>>]>>},
     agree   |-> SeqsUpTo([validFrom : [date : Dates]], 1)]

InitSched == InitWith(LiveInputs)

NextSched == NextWith(LiveInputs)

\* the whole program, the clock running at any speed against it
SpecSched == InitSched /\ [][NextSched]_vars

\* the verify step's inputs: up to two agreements, each valid from any day
VerifyInputs ==
    [Cheaper({Cfg(FALSE, FALSE)}, {{}},
             {<<>>, <<[id |-> "e1", status |-> "IN_PROGRESS", stages |-> <<>>]>>})
        EXCEPT !.agree = SeqsUpTo([validFrom : [date : Dates]], 2)]

InitVerify == InitWith(VerifyInputs)

NextVerify == NextWith(VerifyInputs)

\* the whole program, the verify step's inputs varied
SpecVerify == InitVerify /\ [][NextVerify]_vars

\* Time as the scheduler loop needs it to pass: a pass of the loop that starts
\* no run takes no time (scheduler.py:18-22), time.sleep(30) returns when the
\* 30 seconds have elapsed, and a run ends before the execution minute of
\* another day begins.
TimedTick ==
    /\ pc # "poll"
    /\ pc = "sleep" => ~SleepDue(slept)
    /\ Tick
    /\ (pc = "run" \/ frames > 0) =>
          ~(now'.phase = "exec" /\ now'.date # last_execution_date)

InitLive == InitWith(LiveInputs)

StepLive == ProgramStep(LiveInputs)

NextLive ==
    \/ TimedTick
    \/ StepLive

\* the whole program with its scheduling: the thread takes its next step, every
\* call made returning or raising, and time passes
SpecLive == InitLive /\ [][NextLive]_vars /\ WF_vars(StepLive) /\ WF_vars(TimedTick)

---------------------------------------------------------------------------
(* calculate_potential_costs called by itself, statement by statement *)

progVars == <<config, now, pc, last_execution_date, gql_client, runVars, exc, log,
              lastFail, run_dates, frames>>

\* (mutant) the list outlives the call, as a default argument or a global would
StaleCosts(previous) == previous

\* main.py:201: period_costs = []
FreshCosts(previous) == <<>>

\* the caller makes the same call a second time
NextCall == IF Len(returned) + 1 < 2 THEN "call" ELSE "end"

\* main.py:199-201: the call, with the arguments the frame holds
CalcCall ==
    /\ calc.at = "call"
    /\ calc' = [calc EXCEPT !.at = "loop",
                            !.period_costs = FreshCosts(calc.period_costs),
                            !.i = 1]
    /\ UNCHANGED <<progVars, returned>>

\* main.py:202-217: one pass of the for loop; next() finding no rate raises
\* StopIteration, which leaves the function without a result
CalcIterate ==
    /\ calc.at = "loop"
    /\ calc.i <= Len(calc.consumption_data)
    /\ LET c == calc.consumption_data[calc.i]
           read_time == ReplaceOffset(c.readAt)
       IN  IF CoveringIndexes(calc.rate_data, read_time) = {}
           THEN /\ returned' = Append(returned, [raised |-> TRUE, period_costs |-> <<>>])
                /\ calc' = [calc EXCEPT !.at = NextCall]
           ELSE /\ calc' = [calc EXCEPT
                              !.period_costs = Append(@, PeriodCost(c, calc.rate_data)),
                              !.i = @ + 1]
                /\ UNCHANGED returned
    /\ UNCHANGED progVars

\* main.py:218: return period_costs
CalcReturn ==
    /\ calc.at = "loop"
    /\ calc.i > Len(calc.consumption_data)
    /\ returned' = Append(returned, [raised |-> FALSE, period_costs |-> calc.period_costs])
    /\ calc' = [calc EXCEPT !.at = NextCall]
    /\ UNCHANGED progVars

\* readings as the telemetry query returns them, at any instant, in either zone notation
CalcReadings ==
    [readAt : [t : Times, sfx : Suffixes], consumptionDelta : {1500}, costDeltaWithTax : {1}]

\* rate periods as the rates API returns them, none ending before it starts
CalcPeriods == {p \in Periods({1, 2}) : p.valid_from.t <= p.valid_to.t}

InitCalc ==
    /\ ProcessStart({Cfg(TRUE, TRUE)})
    /\ \E consumption_data \in SeqsUpTo(CalcReadings, 2), rate_data \in SeqsUpTo(CalcPeriods, 2) :
          calc = [at |-> "call", consumption_data |-> consumption_data,
                  rate_data |-> rate_data, period_costs |-> <<>>, i |-> 0]
    /\ returned = <<>>

NextCalc ==
    \/ CalcCall
    \/ CalcIterate
    \/ CalcReturn

\* the cost calculator called twice on the same arguments, the arguments varied
SpecCalc == InitCalc /\ [][NextCalc]_vars

---------------------------------------------------------------------------
(* Reading the history *)

Notes(m) == {i \in DOMAIN log : log[i].k = "note" /\ log[i].m = m}

Calls(m) == {i \in DOMAIN log : log[i].k = "call" /\ log[i].m = m}

Raises == {i \in DOMAIN log : log[i].k = "raise"}

SummaryNotes == Notes("dry_run_summary") \cup Notes("initiating_switch")
                \cup Notes("not_switching")

WorkflowCalls == Calls("switch_tariff") \cup Calls("sleep") \cup Calls("enrolment_query")
                 \cup Calls("accept_mutation") \cup Calls("verify_query")

AllTariffs == {potential_tariffs[i] : i \in DOMAIN potential_tariffs}

\* compare_and_switch holds its locals: get_acc_info has returned
Comparing == curr_tariff # NoTariff

\* the for loop of main.py:289 has run to its end
ComparisonComplete == Comparing /\ idx > Len(potential_tariffs)

\* a candidate evaluated so far costs strictly less than the current tariff
SomeCheaper == \E t \in DOMAIN totals : totals[t] < totals[curr_tariff]

MinTotal == Min({totals[t] : t \in DOMAIN totals})

InWorkflow == pc \in {"switch", "cooldown", "accept", "mutate", "accepted", "verify"}

---------------------------------------------------------------------------
(* Claims *)

\* C1: while no evaluated candidate's day-total is strictly below the current
\* tariff's total (ties included), the best tariff is the current tariff with
\* the current total, and no switch is announced, requested or under way.
C1_TieKeepsCurrent ==
    (Comparing /\ ~SomeCheaper) =>
        /\ best_tariff = curr_tariff
        /\ best_cost = total_curr_cost
        /\ Notes("initiating_switch") = {}
        /\ WorkflowCalls = {}
        /\ ~InWorkflow

\* C1 witness: all three tariffs cost the same, dry run off, and the run ended not switching
C1_Witness ==
    /\ ComparisonComplete
    /\ ~config.DRY_RUN
    /\ pc = "done"
    /\ \A t \in AllTariffs : totals[t] = totals[curr_tariff]
    /\ Notes("not_switching") # {}

\* C2 as stated: after the loop the best cost is the minimum of the current and
\* the candidates' totals and the best tariff has that total; and whenever a
\* candidate is strictly cheaper, a run that ends has requested the switch, for
\* the minimum-cost tariff and no other.
C2_Original ==
    /\ ComparisonComplete =>
         /\ DOMAIN totals = AllTariffs
         /\ best_cost = MinTotal
         /\ totals[best_tariff] = MinTotal
    /\ (ComparisonComplete /\ SomeCheaper /\ pc = "done") =>
         /\ Calls("switch_tariff") # {}
         /\ \A i \in Calls("switch_tariff") : log[i].t = best_tariff

\* C2 amended: the same, the switch being requested when dry-run mode is off;
\* in dry-run mode no switch is requested.
C2_MinimumSelected ==
    /\ ComparisonComplete =>
         /\ DOMAIN totals = AllTariffs
         /\ best_cost = MinTotal
         /\ totals[best_tariff] = MinTotal
         /\ \A i \in Calls("switch_tariff") : log[i].t = best_tariff
         /\ Cardinality(Calls("switch_tariff")) <= 1
    /\ (ComparisonComplete /\ SomeCheaper /\ pc = "done") =>
         (Calls("switch_tariff") # {} <=> ~config.DRY_RUN)

\* C2 witness: a candidate was cheaper and the switch was requested for a tariff
\* that is not the first-listed candidate
C2_Witness ==
    /\ ComparisonComplete
    /\ SomeCheaper
    /\ pc = "done"
    /\ \E i \in Calls("switch_tariff") :
         /\ log[i].t = "COSY"
         /\ totals["COSY"] < totals["GO"]
         /\ totals["COSY"] < totals["AGILE"]

\* C3: with dry run off, the switch workflow is entered only after a comparison
\* that completed without error and chose another tariff, a run that ends after
\* such a comparison has entered it, and when the best tariff is the current
\* one no workflow call is made.
C3_WorkflowIffBetter ==
    ~config.DRY_RUN =>
        /\ (WorkflowCalls # {} \/ InWorkflow) =>
              /\ ComparisonComplete
              /\ best_tariff # curr_tariff
              /\ \A r \in Raises : \E i \in Calls("switch_tariff") : i < r
        /\ (ComparisonComplete /\ pc = "done" /\ best_tariff # curr_tariff) =>
              Calls("switch_tariff") # {}
        /\ (ComparisonComplete /\ best_tariff = curr_tariff) =>
              (WorkflowCalls = {} /\ ~InWorkflow)

\* C3 witness: dry run off, a comparison chose another tariff and the run went
\* through the workflow to its verification
C3_Witness ==
    /\ ~config.DRY_RUN
    /\ ComparisonComplete
    /\ pc = "done"
    /\ best_tariff # curr_tariff
    /\ Calls("verify_query") # {}

\* C4 as stated: in dry-run mode every run that ends has notified the dry-run
\* summary and made no workflow call.
C4_Original ==
    (config.DRY_RUN /\ pc = "done") =>
        /\ Notes("dry_run_summary") # {}
        /\ WorkflowCalls = {}

\* C4 amended: in dry-run mode no run makes a workflow call or waits, and every
\* run whose comparison completes notifies exactly one summary, the dry-run one.
C4_DryRunNeverSwitches ==
    config.DRY_RUN =>
        /\ WorkflowCalls = {}
        /\ ~InWorkflow
        /\ Notes("initiating_switch") = {}
        /\ Notes("not_switching") = {}
        /\ (ComparisonComplete /\ pc = "done" /\ Raises = {}) =>
              Cardinality(Notes("dry_run_summary")) = 1
        /\ Notes("dry_run_summary") # {} => ComparisonComplete

\* C4 witness: a dry run whose best tariff is not the current one has ended
C4_Witness ==
    /\ config.DRY_RUN
    /\ pc = "done"
    /\ ComparisonComplete
    /\ best_tariff # curr_tariff
    /\ Notes("dry_run_summary") # {}

\* C5: the workflow's calls happen at most once each, in the order switch
\* request, cooldown, enrolment query, acceptance, verification; the enrolment
\* query comes only after the switch request returned and the whole cooldown
\* elapsed, the verification only after the accept step returned.
C5_WorkflowOrder ==
    /\ \A m \in {"switch_tariff", "enrolment_query", "accept_mutation", "verify_query"} :
         Cardinality(Calls(m)) <= 1
    /\ \A i \in Calls("sleep") \cup Calls("enrolment_query") :
         \E s \in Calls("switch_tariff") :
            /\ s < i
            /\ log[s + 1].k = "note" /\ log[s + 1].m = "switch_requested"
    /\ \A q \in Calls("enrolment_query") :
         /\ Cardinality(Calls("sleep")) * SleepQuantum >= CooldownSecs
         /\ slept >= CooldownSecs
         /\ \A i \in Calls("sleep") : i < q
    /\ pc \in {"accept", "mutate", "accepted", "verify"} => slept >= CooldownSecs
    /\ \A a \in Calls("accept_mutation") : \E q \in Calls("enrolment_query") : q < a
    /\ \A v \in Calls("verify_query") :
         /\ v > 1 /\ log[v - 1].k = "note" /\ log[v - 1].m = "accepted"
         /\ \E q \in Calls("enrolment_query") : q < v
         /\ \A a \in Calls("accept_mutation") : a < v
         /\ \A r \in Raises : v < r

\* C5 witness: a run went through all four steps
C5_Witness ==
    /\ pc = "done"
    /\ Calls("accept_mutation") # {}
    /\ Notes("verified") # {}

\* C8: after an error in the comparison phase nothing follows but the error
\* report: no candidate is evaluated, no summary notified, no workflow call made.
C8_ComparisonErrorAborts ==
    \A r \in Raises :
        (\A i \in SummaryNotes : r < i) =>
            /\ SummaryNotes = {}
            /\ WorkflowCalls = {}
            /\ ~InWorkflow
            /\ pc \notin {"compare", "acc_info", "loop"}
            /\ \A j \in DOMAIN log : j > r => (log[j].k = "note" /\ log[j].m = "traceback")

\* C8 witness: the second candidate's evaluation failed after the first was cheaper,
\* dry run off, and the run ended
C8_Witness ==
    /\ pc = "done"
    /\ ~config.DRY_RUN
    /\ Comparing
    /\ SomeCheaper
    /\ Raises # {}
    /\ Cardinality(Calls("get_rates")) = 2

\* C9: no error leaves run_tariff_compare; an error ends the run and is
\* reported once, as the last thing the run does; the scheduler loop never ends.
C9_ErrorsCaughtOnce ==
    /\ pc # "crashed"
    /\ ~config.ONE_OFF_RUN => pc # "exit"
    /\ Cardinality(Raises) <= 1
    /\ Cardinality(Notes("traceback")) <= 1
    /\ \A i \in Notes("traceback") : i > 1 /\ log[i - 1].k = "raise" /\ i = Len(log)
    /\ \A r \in Raises : IF pc = "except" THEN r = Len(log)
                         ELSE r + 1 = Len(log) /\ r + 1 \in Notes("traceback")
    /\ (pc = "except") <=> (exc # "none")
    /\ pc = "except" => Raises # {}

\* C9 witness: in scheduled mode, on the second day, a run failed in the
\* workflow and the failure was reported
C9_Witness ==
    /\ ~config.ONE_OFF_RUN
    /\ pc = "done"
    /\ last_execution_date = 2
    /\ Calls("switch_tariff") # {}
    /\ Notes("traceback") # {}

\* the accept step has fetched the enrolments
Fetched == enrolments.today # 0

Submitted == Calls("accept_mutation") # {}

FetchedInProgress == InProgress(enrolments.result)

\* C6 as stated: the acceptance mutation is submitted, or about to be, exactly
\* when one and only one fetched enrolment is IN_PROGRESS.
C6_Original ==
    /\ (pc = "mutate" \/ Submitted) => Fetched
    /\ Fetched => ((pc = "mutate" \/ Submitted) <=> Cardinality(FetchedInProgress) = 1)

\* C6 amended: the acceptance mutation is submitted exactly when at least one
\* fetched enrolment is IN_PROGRESS, once, with the id of the first of them in
\* the fetched list; with none IN_PROGRESS no mutation is submitted.
C6_FirstInProgressAccepted ==
    /\ (pc = "mutate" \/ Submitted) => Fetched
    /\ Fetched => ((pc = "mutate" \/ Submitted) <=> FetchedInProgress # {})
    /\ pc = "mutate" => enrolment_id = enrolments.result[Min(FetchedInProgress)].id
    /\ \A a \in Calls("accept_mutation") :
          log[a].t = enrolments.result[Min(FetchedInProgress)].id
    /\ Cardinality(Calls("accept_mutation")) <= 1

\* C6 witness: two enrolments are IN_PROGRESS and the mutation was submitted for the first
C6_Witness ==
    /\ Fetched
    /\ Cardinality(FetchedInProgress) = 2
    /\ \E a \in Calls("accept_mutation") : log[a].t = "e1"

\* a stage named post-enrolment, COMPLETED, whose last step was updated today
Satisfying(result, today) ==
    \E i \in DOMAIN result : \E j \in DOMAIN result[i].stages :
        LET stage == result[i].stages[j]
        IN  /\ stage.name = "post-enrolment"
            /\ stage.status = "COMPLETED"
            /\ stage.steps # <<>>
            /\ stage.steps[Len(stage.steps)].updatedAt.date = today

\* C7: the fallback is taken only with no enrolment IN_PROGRESS and a stage
\* named post-enrolment, COMPLETED, whose last step was updated today; with no
\* enrolment IN_PROGRESS and no such stage the step fails with the
\* enrolment-not-found error and submits no mutation.
C7_FallbackOrNotFound ==
    /\ Notes("post_enrolment_completed") # {} =>
          /\ Fetched
          /\ FetchedInProgress = {}
          /\ Satisfying(enrolments.result, enrolments.today)
    /\ (Fetched /\ FetchedInProgress = {}
          /\ ~Satisfying(enrolments.result, enrolments.today)) =>
          /\ \E r \in Raises : log[r].m = "EnrolmentNotFound"
          /\ ~Submitted
          /\ pc \in {"except", "done"}

\* C10: every send_message attempts every configured channel and no other,
\* whichever deliveries fail, and no exception leaves it: none reaches the
\* pipeline's handler or the scheduler.
C10_ChannelIsolation ==
    /\ \A i \in DOMAIN log : log[i].k = "note" => log[i].ch = Configured
    /\ lastFail \subseteq Configured
    /\ \A r \in Raises : log[r].m # "RequestException"
    /\ exc # "RequestException"
    /\ pc # "crashed"

\* C10 witness: both channels set, the Discord delivery of the switch-requested
\* message failed, Telegram was attempted, and the run went on to the cooldown
C10_Witness ==
    /\ Configured = Channels
    /\ lastFail = {"discord"}
    /\ pc = "cooldown"
    /\ log[Len(log)].m = "switch_requested"
    /\ log[Len(log)].ch = Channels

\* the verify step has fetched the agreements
VerifyFetched == agreements.today # 0

\* some fetched agreement, at whatever position, became valid on the day of the fetch
SomeValidToday ==
    \E i \in DOMAIN agreements.result :
        agreements.result[i].validFrom.date = agreements.today

\* C11: a verify step that returns succeeds exactly when some fetched agreement,
\* at whatever position in the list, has its validFrom date today; and after a
\* negative result nothing follows its notification: the run ends there.
C11_VerifyAnyPosition ==
    /\ (VerifyFetched /\ pc = "done" /\ Raises = {}) =>
          (Notes("verified") # {} <=> SomeValidToday)
    /\ (VerifyFetched /\ pc = "done" /\ Raises = {}) =>
          (Notes("check_manually") # {} <=> ~SomeValidToday)
    /\ \A n \in Notes("check_manually") : n = Len(log) /\ pc = "done"

\* the readings another run would fetch if only the provider's cost deltas differed
SameButCosts ==
    {r \in CompareInputs.cons :
        /\ Len(r) = Len(consumption)
        /\ \A i \in DOMAIN r : /\ r[i].readAt = consumption[i].readAt
                               /\ r[i].consumptionDelta = consumption[i].consumptionDelta}

\* the readings another run would fetch if only the consumption values differed
SameButDeltas ==
    {r \in CompareInputs.cons :
        /\ Len(r) = Len(consumption)
        /\ \A i \in DOMAIN r : /\ r[i].readAt = consumption[i].readAt
                               /\ r[i].costDeltaWithTax = consumption[i].costDeltaWithTax}

RECURSIVE BestFrom(_, _, _)
\* main.py:289-299 from position i of potential_tariffs on, over the candidates'
\* totals of this run: the best tariff and its cost
BestFrom(i, best, curr) ==
    IF i > Len(potential_tariffs) THEN best
    ELSE LET tariff == potential_tariffs[i]
         IN  IF tariff = curr THEN BestFrom(i + 1, best, curr)
             ELSE IF Improves(totals[tariff], best.cost)
                  THEN BestFrom(i + 1, [tariff |-> tariff, cost |-> totals[tariff]], curr)
                  ELSE BestFrom(i + 1, best, curr)

\* main.py:286-299: what the comparison selects when the current total is total
BestGiven(total) == BestFrom(1, [tariff |-> curr_tariff, cost |-> total], curr_tariff)

\* C12 as stated: a run whose readings differ only in the provider's cost deltas
\* has the same current total and takes the same decision.
C12_Original ==
    ComparisonComplete =>
        \A r \in SameButCosts :
            LET total == TotalCurrCost(r, curr_stdn_charge)
            IN  /\ total = total_curr_cost
                /\ BestGiven(total).tariff = best_tariff
                /\ Decision(config.DRY_RUN, BestGiven(total).tariff, curr_tariff)
                     = Decision(config.DRY_RUN, best_tariff, curr_tariff)

\* C12 amended: the current total is the sum of the provider's cost deltas plus
\* the current standing charge, it is the total the comparison starts from, and
\* a run whose readings differ only in the consumption values has the same
\* current total.
C12_CurrentTotalFromProvider ==
    Comparing =>
        /\ total_curr_cost
             = SumOf(consumption, "costDeltaWithTax") + curr_stdn_charge
        /\ totals[curr_tariff] = total_curr_cost
        /\ ComparisonComplete => BestGiven(total_curr_cost).tariff = best_tariff
        /\ \A r \in SameButDeltas :
              SumOf(r, "costDeltaWithTax") + curr_stdn_charge = total_curr_cost

\* C12 witness: the run switches, and with the other provider cost for the same
\* reading it would have stayed
C12_Witness ==
    /\ ComparisonComplete
    /\ pc = "done"
    /\ ~config.DRY_RUN
    /\ Len(consumption) = 1
    /\ Calls("switch_tariff") # {}
    /\ \E r \in SameButCosts :
          BestGiven(TotalCurrCost(r, curr_stdn_charge)).tariff = curr_tariff

\* the period's bounds contain the instant the reading was taken at
Contains(rate, reading) ==
    /\ rate.valid_from.t <= reading.readAt.t
    /\ reading.readAt.t <= rate.valid_to.t

\* the readings whose instant lies outside every rate period
Uncovered(readings, rates) ==
    {i \in DOMAIN readings : \A j \in DOMAIN rates : ~Contains(rates[j], readings[i])}

\* C13: a call of calculate_potential_costs fails, returning nothing, exactly
\* when some reading's instant lies outside every rate period; otherwise it
\* returns one entry per reading, in reading order, each priced at the rate of
\* a period whose bounds contain the reading's instant.
C13_EntryPerReadingOrLookupError ==
    \A k \in DOMAIN returned :
        LET r  == returned[k]
            cd == calc.consumption_data
            rd == calc.rate_data
        IN  /\ r.raised <=> Uncovered(cd, rd) # {}
            /\ r.raised => r.period_costs = <<>>
            /\ ~r.raised =>
                  /\ Len(r.period_costs) = Len(cd)
                  /\ \A i \in DOMAIN cd :
                        LET e == r.period_costs[i]
                        IN  /\ e.period_end.t = cd[i].readAt.t
                            /\ e.consumption_kwh = cd[i].consumptionDelta
                            /\ \E j \in DOMAIN rd : /\ Contains(rd[j], cd[i])
                                                     /\ e.rate = rd[j].value_inc_vat
                            /\ 1000 * e.calculated_cost - 500
                                  <= cd[i].consumptionDelta * e.rate
                            /\ cd[i].consumptionDelta * e.rate
                                  <= 1000 * e.calculated_cost + 500
            /\ r = calculate_potential_costs(cd, rd)

\* C13 witness: two readings, one of them in +00:00 notation, were priced at
\* two different rates
C13_Witness ==
    \E k \in DOMAIN returned :
        /\ ~returned[k].raised
        /\ Len(returned[k].period_costs) = 2
        /\ returned[k].period_costs[1].rate # returned[k].period_costs[2].rate
        /\ calc.consumption_data[2].readAt.sfx = "+00:00"

\* a call's arguments are the same objects after every statement of it
ArgumentsKept ==
    /\ calc'.consumption_data = calc.consumption_data
    /\ calc'.rate_data = calc.rate_data

\* C17: the second of two calls with the same readings and rates returns what
\* the first returned, cost by cost and in total, and no statement of a call
\* changes the readings or the rates.
C17_Repeatable ==
    /\ [](Len(returned) = 2 =>
            /\ returned[2] = returned[1]
            /\ SumOf(returned[2].period_costs, "calculated_cost")
                 = SumOf(returned[1].period_costs, "calculated_cost"))
    /\ [][ArgumentsKept]_vars

\* C17 witness: both calls returned a cost for each of two readings
C17_Witness ==
    /\ Len(returned) = 2
    /\ ~returned[1].raised
    /\ Len(returned[2].period_costs) = 2

\* the periods, read as half-open windows [from, to), tile the day from 0 to
\* MaxTime: none is empty, no two overlap, and each ends where the day ends or
\* where another begins
Tiles(rates) ==
    /\ rates # <<>>
    /\ \A j \in DOMAIN rates : rates[j].valid_from.t < rates[j].valid_to.t
    /\ \E j \in DOMAIN rates : rates[j].valid_from.t = 0
    /\ \A j, k \in DOMAIN rates :
          j # k => \/ rates[j].valid_to.t <= rates[k].valid_from.t
                   \/ rates[k].valid_to.t <= rates[j].valid_from.t
    /\ \A j \in DOMAIN rates :
          \/ rates[j].valid_to.t = MaxTime
          \/ \E k \in DOMAIN rates : rates[k].valid_from.t = rates[j].valid_to.t

\* the same periods in every order
Reorderings(rates) ==
    {[i \in DOMAIN rates |-> rates[f[i]]] :
        f \in {g \in [DOMAIN rates -> DOMAIN rates] :
                  \A j, k \in DOMAIN rates : j # k => g[j] # g[k]}}

\* C18: when the schedule tiles the day and every reading is taken within it,
\* each reading is matched by exactly one period under the lookup predicate,
\* and what a call returns is what it returns for every order of the periods.
C18_UniqueMatchAnyOrder ==
    \A k \in DOMAIN returned :
        (/\ Tiles(calc.rate_data)
         /\ \A i \in DOMAIN calc.consumption_data :
               calc.consumption_data[i].readAt.t < MaxTime) =>
            /\ ~returned[k].raised
            /\ \A i \in DOMAIN calc.consumption_data :
                  Cardinality(CoveringIndexes(calc.rate_data,
                      ReplaceOffset(calc.consumption_data[i].readAt))) = 1
            /\ \A q \in Reorderings(calc.rate_data) :
                  calculate_potential_costs(calc.consumption_data, q) = returned[k]

\* control is inside run_tariff_compare
InRun == frames > 0

CallsOutsideRun ==
    /\ run_dates' # run_dates => (frames = 0 /\ pc \in {"start", "poll"})
    /\ frames' > frames => (frames = 0 /\ pc = "run")

\* C15: at most one run_tariff_compare call is in progress; the scheduler
\* calls it only from its own loop, with no run in progress; and from the
\* switch request to the verification, the cooldown included, control stays
\* in the one run.
C15_OneRunAtATime ==
    /\ [](/\ frames \in {0, 1}
          /\ pc \in {"start", "poll", "sleep", "run", "exit"} => frames = 0
          /\ (InWorkflow \/ WorkflowCalls # {}) => frames = 1)
    /\ [][CallsOutsideRun]_vars

\* C15 witness: a run started on the first day is in its cooldown while the
\* clock reads the execution time of the second day
C15_Witness ==
    /\ pc = "cooldown"
    /\ slept > 0
    /\ ~config.ONE_OFF_RUN
    /\ run_dates = <<1>>
    /\ ShouldExecute(now, last_execution_date)

CostNotes == Notes("current_cost") \cup Notes("potential_cost")

\* the candidates whose total this run has computed
Evaluated == DOMAIN totals \ {curr_tariff}

\* C16: the current tariff's cost is notified once, before any candidate's
\* rates are fetched or cost notified; each evaluated candidate's cost is
\* notified once, right after its rates were fetched and its total computed
\* and before the next candidate's rates are fetched; the summary comes after
\* all of them.
C16_NotificationOrder ==
    /\ Cardinality(Notes("current_cost")) = (IF Comparing THEN 1 ELSE 0)
    /\ \A c \in Notes("current_cost") :
          /\ log[c].t = curr_tariff
          /\ \A i \in Notes("potential_cost") \cup Calls("get_rates") : c < i
    /\ \A t \in AllTariffs :
          Cardinality({p \in Notes("potential_cost") : log[p].t = t})
            = (IF t \in Evaluated THEN 1 ELSE 0)
    /\ \A p \in Notes("potential_cost") :
          /\ p > 1
          /\ log[p - 1] = Call("get_rates", log[p].t)
    /\ \A g \in Calls("get_rates") :
          \A t \in Evaluated :
             (\E h \in Calls("get_rates") : h < g /\ log[h].t = t) =>
                \E p \in Notes("potential_cost") : log[p].t = t /\ p < g
    /\ Cardinality(SummaryNotes) <= 1
    /\ \A n \in SummaryNotes :
          /\ ComparisonComplete
          /\ \A i \in CostNotes \cup Calls("get_rates") : i < n
          /\ Cardinality(Notes("potential_cost")) = Len(potential_tariffs) - 1

\* C16 witness: a run notified the current cost, two candidates' costs and a summary
C16_Witness ==
    /\ pc = "done"
    /\ ComparisonComplete
    /\ Cardinality(Notes("potential_cost")) = 2
    /\ SummaryNotes # {}
    /\ best_tariff = "COSY"

TerminalNotes ==
    {"dry_run_summary", "not_switching", "verified", "check_manually", "traceback"}

\* C19: every run that is started ends, and when it ends the last thing it did
\* was to notify the dry-run summary, the not-switching summary, the verified
\* success, the request to check manually, or an error report.
C19_RunsEndNotified ==
    /\ [](pc = "done" =>
            /\ log # <<>>
            /\ log[Len(log)].k = "note"
            /\ log[Len(log)].m \in TerminalNotes
            /\ \A i \in DOMAIN log :
                  (log[i].k = "note" /\ log[i].m \in TerminalNotes) => i = Len(log))
    /\ (pc = "run") ~> (pc = "done")

\* C19 witness: a run went through the workflow and ended asking to check manually
C19_Witness ==
    /\ pc = "done"
    /\ log[Len(log)].m = "check_manually"
    /\ Calls("accept_mutation") # {}

\* the scheduler loop of scheduler.py:17-27 is running
LoopRunning == ~config.ONE_OFF_RUN /\ pc \notin {"start", "exit", "crashed"}

\* C20: in scheduled mode, on every day on which the clock reads the execution
\* time while the loop is running, a run is started for that day, whatever
\* became of the runs of the days before.
C20_RunsEveryDay ==
    \A d \in Dates :
        (LoopRunning /\ now.date = d /\ now.phase = "exec")
            ~> (\E i \in DOMAIN run_dates : run_dates[i] = d)

\* C20 witness: the first day's run failed at its set-up, and the loop has
\* started the second day's run in the second half of the execution minute
C20_Witness ==
    /\ ~config.ONE_OFF_RUN
    /\ pc = "run"
    /\ run_dates = <<1, 2>>
    /\ ~gql_client
    /\ now = [date |-> 2, phase |-> "exec", sec |-> SleepQuantum]

====
